---- MODULE Spec2Model ----
(***************************************************************************)
(* Model of natural_language_query.py: the NaturalLanguageQuery class, its *)
(* transcript (self.messages), the tool-calling loop of run_query and the  *)
(* denylist gate and executor _execute_sql_query.                          *)
(*                                                                         *)
(* Texts are tuples of one-character strings so that upper() and the `in`  *)
(* substring test are computed, not assumed.  A JSON text produced by      *)
(* json.dumps is the record [kind |-> "json", doc |-> d]: the document is  *)
(* kept, wrapped, so that a value and its serialisation differ.            *)
(* The LLM service and the database are the environment: every response,   *)
(* description, row set and failure is a nondeterministic input.           *)
(* psycopg2's close() of an unnamed cursor and of a connection only marks  *)
(* the object closed and does not raise; the model takes both as total.    *)
(***************************************************************************)
EXTENDS Integers, Sequences, FiniteSets, TLC

VARIABLES
    messages,    \* self.messages, the transcript
    pc,          \* control position of the program
    force_tool,  \* run_query local force_tool
    message,     \* run_query local message (the response being processed)
    idx,         \* position of the for loop over message.tool_calls
    sql_query,   \* _execute_sql_query argument
    caller,      \* who called _execute_sql_query: "init" or "tool"
    has_conn,    \* 'conn' in locals()
    has_cur,     \* 'cur' in locals()
    columns,     \* _execute_sql_query local columns
    rows,        \* _execute_sql_query local rows
    results,     \* _execute_sql_query local results
    ret,         \* value _execute_sql_query returns
    dbLog,       \* database operations issued by the current execution
    openConns,   \* connections currently open on the database
    openCurs,    \* cursors currently open on the database
    requests,    \* every chat-completion request sent so far: its tool_choice and
                 \* the number of turns of self.messages it carried
    runs,        \* number of run_query invocations started
    iter,        \* LLM requests sent by the current run_query invocation
    qpos,        \* index in messages of the current invocation's question
    retval,      \* value returned by the last run_query that returned
    exc,         \* exception that ended the last run_query, or "none"
    issued,      \* tool-call requests the LLM has issued so far
    faults       \* abnormal events the environment has produced so far

vars == <<messages, pc, force_tool, message, idx, sql_query, caller, has_conn,
          has_cur, columns, rows, results, ret, dbLog, openConns, openCurs,
          requests, runs, iter, qpos, retval, exc, faults, issued>>

frame == <<sql_query, caller, has_conn, has_cur, columns, rows, results, ret>>

driver == <<messages, force_tool, message, idx, requests, runs, iter, qpos,
            retval, exc, issued>>

----------------------------------------------------------------------------
(* Bounds of the model *)

MaxRequests == 2

MaxCalls == 2

MaxFaults == 1

----------------------------------------------------------------------------
(* Texts *)

LowerLetters == <<"a", "b", "c", "d", "e", "f", "g", "h", "i", "j", "k", "l", "m", "n", "o", "p", "q", "r", "s", "t", "u", "v", "w", "x", "y", "z">>

UpperLetters == <<"A", "B", "C", "D", "E", "F", "G", "H", "I", "J", "K", "L", "M", "N", "O", "P", "Q", "R", "S", "T", "U", "V", "W", "X", "Y", "Z">>

ToUpper ==
    [c \in {LowerLetters[i] : i \in 1..26} |->
        UpperLetters[CHOOSE i \in 1..26 : LowerLetters[i] = c]]

UpperChar(c) == IF c \in DOMAIN ToUpper THEN ToUpper[c] ELSE c

ToLower ==
    [c \in {UpperLetters[i] : i \in 1..26} |->
        LowerLetters[CHOOSE i \in 1..26 : UpperLetters[i] = c]]

LowerChar(c) == IF c \in DOMAIN ToLower THEN ToLower[c] ELSE c

\* faulty variant of Upper: the text is compared as written
UpperForgotten(s) == s

Upper(s) == [i \in 1..Len(s) |-> UpperChar(s[i])]

Contains(s, w) ==
    \E k \in 0..(Len(s) - Len(w)) : \A i \in 1..Len(w) : s[k + i] = w[i]

forbidden_commands == <<
    <<"D", "R", "O", "P">>,
    <<"D", "E", "L", "E", "T", "E">>,
    <<"U", "P", "D", "A", "T", "E">>,
    <<"I", "N", "S", "E", "R", "T">>,
    <<"C", "R", "E", "A", "T", "E">>,
    <<"A", "L", "T", "E", "R">>,
    <<"T", "R", "U", "N", "C", "A", "T", "E">>,
    <<"G", "R", "A", "N", "T">>,
    <<"R", "E", "V", "O", "K", "E">>,
    <<"C", "O", "M", "M", "I", "T">>,
    <<"R", "O", "L", "L", "B", "A", "C", "K">> >>

IsStr(v) == "str" \in DOMAIN v

Forbidden(text) ==
    \E c \in 1..Len(forbidden_commands) : Contains(Upper(text), forbidden_commands[c])

SchemaQuery == <<"S", "E", "L", "E", "C", "T", " ", "t", "a", "b", "l", "e", "_", "s", "c", "h", "e", "m", "a", ",", " ", "t", "a", "b", "l", "e", "_", "n", "a", "m", "e", " ", "F", "R", "O", "M", " ", "i", "n", "f", "o", "r", "m", "a", "t", "i", "o", "n", "_", "s", "c", "h", "e", "m", "a", ".", "t", "a", "b", "l", "e", "s">>

SelectText == <<"s", "e", "l", "e", "c", "t", " ", "i", "d", ",", " ", "n", "a", "m", "e", " ", "f", "r", "o", "m", " ", "u", "s", "e", "r", "s">>

EmptyText == <<"s", "e", "l", "e", "c", "t", " ", "i", "d", ",", " ", "n", "a", "m", "e", " ", "f", "r", "o", "m", " ", "u", "s", "e", "r", "s", " ", "w", "h", "e", "r", "e", " ", "f", "a", "l", "s", "e">>

JoinText == <<"s", "e", "l", "e", "c", "t", " ", "a", ".", "i", "d", ",", " ", "b", ".", "i", "d", " ", "f", "r", "o", "m", " ", "a", ",", " ", "b">>

SeenText == <<"s", "e", "l", "e", "c", "t", " ", "i", "d", ",", " ", "s", "e", "e", "n", " ", "f", "r", "o", "m", " ", "v", "i", "s", "i", "t", "s">>

VacuumText == <<"v", "a", "c", "u", "u", "m">>

DropText == <<"x", ";", " ", "d", "R", "o", "P", " ", "t">>

----------------------------------------------------------------------------
(* JSON documents and their serialisation *)

Unset == [t |-> "unset"]

ErrorDoc(m) == [t |-> "error", error |-> m]

NotAllowed == ErrorDoc("You are not allowed to execute this command.")

SuccessDoc == [t |-> "message", message |-> "Query executed successfully."]

RowsDoc(ms) == [t |-> "rows", rows |-> ms]

StringDoc(s) == [t |-> "string", string |-> s]

JsonDumps(d) == [kind |-> "json", doc |-> d]

NonSerializable == {"datetime"}

Serializable(d) ==
    d.t = "rows" =>
        \A r \in 1..Len(d.rows) : \A k \in 1..Len(d.rows[r]) :
            d.rows[r][k][2] \notin NonSerializable

Min(a, b) == IF a < b THEN a ELSE b

Zip(cs, r) == [i \in 1..Min(Len(cs), Len(r)) |-> <<cs[i], r[i]>>]

DictSet(d, k, v) ==
    IF \E i \in 1..Len(d) : d[i][1] = k
    THEN [d EXCEPT ![CHOOSE i \in 1..Len(d) : d[i][1] = k] = <<k, v>>]
    ELSE Append(d, <<k, v>>)

RECURSIVE DictFrom(_, _)
DictFrom(d, pairs) ==
    IF pairs = <<>> THEN d
    ELSE DictFrom(DictSet(d, Head(pairs)[1], Head(pairs)[2]), Tail(pairs))

Dict(pairs) == DictFrom(<<>>, pairs)

----------------------------------------------------------------------------
(* Turns of the transcript *)

NoContent == [kind |-> "none"]

Text(s) == [kind |-> "text", text |-> s]

Turn(r, c) == [role |-> r, content |-> c, tool_calls |-> <<>>, tool_call_id |-> 0]

system_prompt == Turn("system", Text("system prompt"))

AssistantTurn(m) ==
    [role |-> "assistant", content |-> m.content, tool_calls |-> m.tool_calls,
     tool_call_id |-> 0]

ToolTurn(c, id) ==
    [role |-> "tool", content |-> c, tool_calls |-> <<>>, tool_call_id |-> id]

NoMessage == [content |-> NoContent, tool_calls |-> <<>>]

----------------------------------------------------------------------------
(* Inputs from the caller and the LLM service.  A response carries zero or *)
(* more tool-call requests, MaxCalls at most over a behaviour; the service *)
(* gives every request an id of its own.  A request that names another     *)
(* function, whose argument text is not JSON or is JSON for something      *)
(* other than an object, or whose arguments do not bind to sql_query (a    *)
(* missing or an extra key) is an abnormal event, as is a raising LLM      *)
(* request or a raising                                                    *)
(* database operation: a behaviour has at most MaxFaults of them, and      *)
(* MaxRequests LLM requests.                                               *)

Questions == {"How many tables are in the schema?"}

Contents == {NoContent, Text("answer")}

StrVal(t) == [str |-> t]

NumVal(n) == [num |-> n]

ObjectArgs(ms) == [form |-> "object", members |-> ms]

MalformedArgs == [form |-> "malformed", members |-> <<>>]

ArrayArgs == [form |-> "array", members |-> <<>>]

SqlCall(text) ==
    [name |-> "execute_sql_query", arguments |-> ObjectArgs(<< <<"sql_query", StrVal(text)>> >>)]

LLMTexts == {SelectText, DropText}

GoodForms == {SqlCall(t) : t \in LLMTexts}

BadForms == {
    [name |-> "execute_sql_query", arguments |-> MalformedArgs],
    [name |-> "run_shell", arguments |-> ObjectArgs(<< <<"sql_query", StrVal(SelectText)>> >>)],
    [name |-> "execute_sql_query", arguments |-> ObjectArgs(<< <<"query", StrVal(SelectText)>> >>)],
    [name |-> "execute_sql_query",
     arguments |-> ObjectArgs(<< <<"sql_query", StrVal(SelectText)>>, <<"limit", NumVal(1)>> >>)],
    [name |-> "execute_sql_query", arguments |-> ArrayArgs] }

RECURSIVE SeqsUpTo(_, _)
SeqsUpTo(S, n) ==
    IF n = 0 THEN {<<>>}
    ELSE LET shorter == SeqsUpTo(S, n - 1)
         IN  shorter \cup {Append(q, x) : q \in {p \in shorter : Len(p) = n - 1}, x \in S}

BadCount(fs) == Cardinality({j \in 1..Len(fs) : fs[j] \in BadForms})

FreshId(n, j) == 10 * n + j

WithIds(fs, n) ==
    [j \in 1..Len(fs) |-> [id |-> FreshId(n, j), name |-> fs[j].name, arguments |-> fs[j].arguments]]

Responses(n, budget, room) ==
    {[content |-> c, tool_calls |-> <<>>] : c \in Contents}
    \cup {[content |-> NoContent, tool_calls |-> WithIds(fs, n)] :
            fs \in {g \in SeqsUpTo(GoodForms \cup BadForms, room) :
                        g # <<>> /\ BadCount(g) <= budget}}

BadCalls(m) == Cardinality({j \in 1..Len(m.tool_calls) :
                   \E f \in BadForms : f.name = m.tool_calls[j].name
                                       /\ f.arguments = m.tool_calls[j].arguments})

tools_map == {"execute_sql_query"}

----------------------------------------------------------------------------
(* The database: what cur.description and cur.fetchall() give for the      *)
(* statements the model submits                                            *)

DbDescriptions(text) ==
    IF text = SchemaQuery THEN {<<"table_schema", "table_name">>}
    ELSE IF text \in {SelectText, EmptyText} THEN {<<"id", "name">>}
    ELSE IF text = JoinText THEN {<<"id", "id">>}
    ELSE IF text = SeenText THEN {<<"id", "seen">>}
    ELSE {<<>>}

DbRows(text) ==
    IF text = SchemaQuery THEN {<< <<"public", "users">> >>}
    ELSE IF text = SelectText THEN {<< <<"1", "a">>, <<"2", "b">> >>}
    ELSE IF text = JoinText THEN {<< <<"1", "2">>, <<"3", "4">> >>}
    ELSE IF text = SeenText THEN {<< <<"1", "datetime">> >>}
    ELSE {<<>>}

----------------------------------------------------------------------------
(* json.loads of a tool call's argument text, and the binding of the       *)
(* parsed arguments to _execute_sql_query(self, sql_query)                 *)

JsonLoadsRaises(a) == a.form = "malformed"

JsonLoads(a) == Dict(a.members)

Keys(d) == {d[i][1] : i \in 1..Len(d)}

Lookup(d, k) == d[CHOOSE i \in 1..Len(d) : d[i][1] = k][2]

DispatchError(tc) ==
    IF JsonLoadsRaises(tc.arguments) THEN "JSONDecodeError"
    ELSE IF tc.name \notin tools_map THEN "KeyError"
    ELSE IF tc.arguments.form # "object" \/ Keys(JsonLoads(tc.arguments)) # {"sql_query"}
         THEN "TypeError"
    ELSE "none"

ToolChoice(force) ==
    IF force THEN [type |-> "function", function |-> "execute_sql_query"]
    ELSE [type |-> "auto"]

Request(force, msgs) == [tool_choice |-> ToolChoice(force), sent |-> Len(msgs)]

----------------------------------------------------------------------------
(* Initial state: __init__ has set its fields, self.messages = [] and is   *)
(* about to call _initialize_ai                                            *)

Init ==
    /\ messages = <<>>
    /\ pc = "construct"
    /\ force_tool = FALSE
    /\ message = NoMessage
    /\ idx = 0
    /\ sql_query = StrVal(<<>>)
    /\ caller = "none"
    /\ has_conn = FALSE
    /\ has_cur = FALSE
    /\ columns = <<>>
    /\ rows = <<>>
    /\ results = Unset
    /\ ret = Unset
    /\ dbLog = <<>>
    /\ openConns = 0
    /\ openCurs = 0
    /\ requests = <<>>
    /\ runs = 0
    /\ iter = 0
    /\ qpos = 0
    /\ retval = NoContent
    /\ exc = "none"
    /\ faults = 0
    /\ issued = 0

----------------------------------------------------------------------------
(* _execute_sql_query *)

Op(o, ok) == [op |-> o, ok |-> ok]

EnterExecute(q, who) ==
    /\ sql_query' = q
    /\ caller' = who
    /\ has_conn' = FALSE
    /\ has_cur' = FALSE
    /\ columns' = <<>>
    /\ rows' = <<>>
    /\ results' = Unset
    /\ ret' = Unset
    /\ dbLog' = <<>>
    /\ pc' = "check"

LeaveExecute ==
    /\ sql_query' = StrVal(<<>>)
    /\ caller' = "none"
    /\ has_conn' = FALSE
    /\ has_cur' = FALSE
    /\ columns' = <<>>
    /\ rows' = <<>>
    /\ results' = Unset
    /\ ret' = Unset
    /\ dbLog' = <<>>

Except(m) ==
    /\ ret' = JsonDumps(ErrorDoc(m))
    /\ pc' = "close_cur"

Raises(o) ==
    /\ faults < MaxFaults
    /\ faults' = faults + 1
    /\ dbLog' = Append(dbLog, Op(o, FALSE))
    /\ Except(o)

CheckForbidden ==
    /\ pc = "check"
    /\ IF ~IsStr(sql_query)
       THEN Except("'int' object has no attribute 'upper'")
       ELSE IF Forbidden(sql_query.str)
            THEN /\ ret' = JsonDumps(NotAllowed)
                 /\ pc' = "close_cur"
            ELSE /\ pc' = "connect"
                 /\ ret' = ret
    /\ UNCHANGED <<sql_query, caller, has_conn, has_cur, columns, rows, results,
                   dbLog, openConns, openCurs, faults>>
    /\ UNCHANGED driver

Connect ==
    /\ pc = "connect"
    /\ \/ /\ has_conn' = TRUE
          /\ openConns' = openConns + 1
          /\ dbLog' = Append(dbLog, Op("connect", TRUE))
          /\ pc' = "cursor"
          /\ UNCHANGED <<ret, faults>>
       \/ /\ Raises("connect")
          /\ UNCHANGED <<has_conn, openConns>>
    /\ UNCHANGED <<sql_query, caller, has_cur, columns, rows, results, openCurs>>
    /\ UNCHANGED driver

Cursor ==
    /\ pc = "cursor"
    /\ \/ /\ has_cur' = TRUE
          /\ openCurs' = openCurs + 1
          /\ dbLog' = Append(dbLog, Op("cursor", TRUE))
          /\ pc' = "execute"
          /\ UNCHANGED <<ret, faults>>
       \/ /\ Raises("cursor")
          /\ UNCHANGED <<has_cur, openCurs>>
    /\ UNCHANGED <<sql_query, caller, has_conn, columns, rows, results, openConns>>
    /\ UNCHANGED driver

\* faulty variant of Execute: results starts as an empty row list and the
\* success marker is never set
ExecuteAlwaysFetches ==
    /\ pc = "execute"
    /\ \/ \E description \in DbDescriptions(sql_query.str) :
            /\ dbLog' = Append(dbLog, Op("execute", TRUE))
            /\ UNCHANGED <<ret, faults>>
            /\ columns' = description
            /\ results' = RowsDoc(<<>>)
            /\ pc' = IF description # <<>> THEN "fetch" ELSE "commit"
       \/ /\ Raises("execute")
          /\ UNCHANGED <<columns, results>>
    /\ UNCHANGED <<sql_query, caller, has_conn, has_cur, rows, openConns, openCurs>>
    /\ UNCHANGED driver

Execute ==
    /\ pc = "execute"
    /\ \/ \E description \in DbDescriptions(sql_query.str) :
            /\ dbLog' = Append(dbLog, Op("execute", TRUE))
            /\ UNCHANGED <<ret, faults>>
            /\ IF description # <<>>
               THEN /\ columns' = description
                    /\ results' = results
                    /\ pc' = "fetch"
               ELSE /\ results' = SuccessDoc
                    /\ columns' = columns
                    /\ pc' = "commit"
       \/ /\ Raises("execute")
          /\ UNCHANGED <<columns, results>>
    /\ UNCHANGED <<sql_query, caller, has_conn, has_cur, rows, openConns, openCurs>>
    /\ UNCHANGED driver

RowMappings(cs, rs) == [i \in 1..Len(rs) |-> Dict(Zip(cs, rs[i]))]

Fetch ==
    /\ pc = "fetch"
    /\ \/ \E rs \in DbRows(sql_query.str) :
            /\ rows' = rs
            /\ results' = RowsDoc(RowMappings(columns, rs))
            /\ dbLog' = Append(dbLog, Op("fetchall", TRUE))
            /\ UNCHANGED <<ret, faults>>
            /\ pc' = "commit"
       \/ /\ Raises("fetchall")
          /\ UNCHANGED <<rows, results>>
    /\ UNCHANGED <<sql_query, caller, has_conn, has_cur, columns, openConns, openCurs>>
    /\ UNCHANGED driver

Returned(res) ==
    IF Serializable(res) THEN JsonDumps(res)
    ELSE JsonDumps(ErrorDoc("Object of type datetime is not JSON serializable"))

\* faulty variant of Commit: a statement that returned rows is answered
\* without a commit
CommitSkippedForRows ==
    /\ pc = "commit"
    /\ \/ /\ dbLog' = (IF columns # <<>> THEN dbLog ELSE Append(dbLog, Op("commit", TRUE)))
          /\ ret' = Returned(results)
          /\ pc' = "close_cur"
          /\ UNCHANGED faults
       \/ Raises("commit")
    /\ UNCHANGED <<sql_query, caller, has_conn, has_cur, columns, rows, results,
                   openConns, openCurs>>
    /\ UNCHANGED driver

Commit ==
    /\ pc = "commit"
    /\ \/ /\ dbLog' = Append(dbLog, Op("commit", TRUE))
          /\ ret' = Returned(results)
          /\ pc' = "close_cur"
          /\ UNCHANGED faults
       \/ Raises("commit")
    /\ UNCHANGED <<sql_query, caller, has_conn, has_cur, columns, rows, results,
                   openConns, openCurs>>
    /\ UNCHANGED driver

CloseCursor ==
    /\ pc = "close_cur"
    /\ IF has_cur
       THEN /\ openCurs' = openCurs - 1
            /\ dbLog' = Append(dbLog, Op("cur.close", TRUE))
       ELSE UNCHANGED <<openCurs, dbLog>>
    /\ pc' = "close_conn"
    /\ UNCHANGED <<frame, openConns, faults>>
    /\ UNCHANGED driver

\* faulty variant of CloseConnection: the connection is closed only when the
\* call did not end in an error
CloseConnectionOnSuccessOnly ==
    /\ pc = "close_conn"
    /\ IF has_conn /\ ret.doc.t # "error"
       THEN /\ openConns' = openConns - 1
            /\ dbLog' = Append(dbLog, Op("conn.close", TRUE))
       ELSE UNCHANGED <<openConns, dbLog>>
    /\ pc' = "exec_return"
    /\ UNCHANGED <<frame, openCurs, faults>>
    /\ UNCHANGED driver

CloseConnection ==
    /\ pc = "close_conn"
    /\ IF has_conn
       THEN /\ openConns' = openConns - 1
            /\ dbLog' = Append(dbLog, Op("conn.close", TRUE))
       ELSE UNCHANGED <<openConns, dbLog>>
    /\ pc' = "exec_return"
    /\ UNCHANGED <<frame, openCurs, faults>>
    /\ UNCHANGED driver

----------------------------------------------------------------------------
(* __init__ / _initialize_ai *)

InitializeAI ==
    /\ pc = "construct"
    /\ messages' = Append(messages, system_prompt)
    /\ EnterExecute(StrVal(SchemaQuery), "init")
    /\ UNCHANGED <<force_tool, message, idx, requests, runs, iter, qpos, retval, exc>>
    /\ UNCHANGED <<openConns, openCurs, faults>>
    /\ UNCHANGED issued

\* faulty variant of SeedSchema: a failed schema query seeds nothing
SeedSchemaSkipsErrors ==
    /\ pc = "exec_return"
    /\ caller = "init"
    /\ messages' = (IF ret.doc.t = "error" THEN messages
                    ELSE Append(messages, Turn("user", ret)))
    /\ pc' = "idle"
    /\ LeaveExecute
    /\ UNCHANGED <<force_tool, message, idx, requests, runs, iter, qpos, retval, exc>>
    /\ UNCHANGED <<openConns, openCurs, faults>>
    /\ UNCHANGED issued

SeedSchema ==
    /\ pc = "exec_return"
    /\ caller = "init"
    /\ messages' = Append(messages, Turn("user", ret))
    /\ pc' = "idle"
    /\ LeaveExecute
    /\ UNCHANGED <<force_tool, message, idx, requests, runs, iter, qpos, retval, exc>>
    /\ UNCHANGED <<openConns, openCurs, faults>>
    /\ UNCHANGED issued

----------------------------------------------------------------------------
(* run_query *)

\* faulty variant of RunQuery: every invocation starts from the seeded transcript
RunQueryStartsAfresh ==
    /\ pc \in {"idle", "returned", "raised"}
    /\ \E query \in Questions :
          messages' = Append(SubSeq(messages, 1, 2), Turn("user", Text(query)))
    /\ qpos' = 3
    /\ force_tool' = TRUE
    /\ runs' = runs + 1
    /\ iter' = 0
    /\ retval' = NoContent
    /\ exc' = "none"
    /\ pc' = "llm"
    /\ UNCHANGED <<message, idx, requests>>
    /\ UNCHANGED <<frame, dbLog, openConns, openCurs, faults>>
    /\ UNCHANGED issued

\* faulty variant of RunQuery: force_tool is armed by the first invocation only
RunQueryForcesOnce ==
    /\ pc \in {"idle", "returned", "raised"}
    /\ \E query \in Questions :
          messages' = Append(messages, Turn("user", Text(query)))
    /\ qpos' = Len(messages) + 1
    /\ force_tool' = (runs = 0)
    /\ runs' = runs + 1
    /\ iter' = 0
    /\ retval' = NoContent
    /\ exc' = "none"
    /\ pc' = "llm"
    /\ UNCHANGED <<message, idx, requests>>
    /\ UNCHANGED <<frame, dbLog, openConns, openCurs, faults>>
    /\ UNCHANGED issued

\* faulty variant of RunQuery: force_tool is not armed
RunQueryUnforced ==
    /\ pc \in {"idle", "returned", "raised"}
    /\ \E query \in Questions :
          messages' = Append(messages, Turn("user", Text(query)))
    /\ qpos' = Len(messages) + 1
    /\ force_tool' = FALSE
    /\ runs' = runs + 1
    /\ iter' = 0
    /\ retval' = NoContent
    /\ exc' = "none"
    /\ pc' = "llm"
    /\ UNCHANGED <<message, idx, requests>>
    /\ UNCHANGED <<frame, dbLog, openConns, openCurs, faults>>
    /\ UNCHANGED issued

RunQuery ==
    /\ pc \in {"idle", "returned", "raised"}
    /\ \E query \in Questions :
          messages' = Append(messages, Turn("user", Text(query)))
    /\ qpos' = Len(messages) + 1
    /\ force_tool' = TRUE
    /\ runs' = runs + 1
    /\ iter' = 0
    /\ retval' = NoContent
    /\ exc' = "none"
    /\ pc' = "llm"
    /\ UNCHANGED <<message, idx, requests>>
    /\ UNCHANGED <<frame, dbLog, openConns, openCurs, faults>>
    /\ UNCHANGED issued

\* faulty variant of LLMRaise: the turns of the failed invocation are removed
LLMRaiseRollsBack ==
    /\ pc = "llm"
    /\ Len(requests) < MaxRequests
    /\ faults < MaxFaults
    /\ faults' = faults + 1
    /\ requests' = Append(requests, Request(force_tool, messages))
    /\ iter' = iter + 1
    /\ exc' = "TransportError"
    /\ pc' = "raised"
    /\ force_tool' = FALSE
    /\ message' = NoMessage
    /\ idx' = 0
    /\ messages' = SubSeq(messages, 1, qpos - 1)
    /\ UNCHANGED <<runs, qpos, retval>>
    /\ UNCHANGED <<frame, dbLog, openConns, openCurs>>
    /\ UNCHANGED issued

LLMRaise ==
    /\ pc = "llm"
    /\ Len(requests) < MaxRequests
    /\ faults < MaxFaults
    /\ faults' = faults + 1
    /\ requests' = Append(requests, Request(force_tool, messages))
    /\ iter' = iter + 1
    /\ exc' = "TransportError"
    /\ pc' = "raised"
    /\ force_tool' = FALSE
    /\ message' = NoMessage
    /\ idx' = 0
    /\ UNCHANGED <<messages, runs, qpos, retval>>
    /\ UNCHANGED <<frame, dbLog, openConns, openCurs>>
    /\ UNCHANGED issued

\* faulty variant of LLMRespond: the loop gives up after its second request
\* and returns whatever content that response carried
LLMRespondCapsIterations ==
    /\ pc = "llm"
    /\ Len(requests) < MaxRequests
    /\ requests' = Append(requests, Request(force_tool, messages))
    /\ iter' = iter + 1
    /\ \E m \in Responses(Len(requests) + 1, MaxFaults - faults, MaxCalls - issued) :
          /\ messages' = Append(messages, AssistantTurn(m))
          /\ faults' = faults + BadCalls(m)
          /\ issued' = issued + Len(m.tool_calls)
          /\ IF m.tool_calls # <<>> /\ iter < 1
             THEN /\ message' = m
                  /\ idx' = 1
                  /\ retval' = retval
                  /\ pc' = "dispatch"
             ELSE /\ message' = NoMessage
                  /\ idx' = 0
                  /\ retval' = m.content
                  /\ pc' = "returned"
    /\ force_tool' = FALSE
    /\ UNCHANGED <<runs, qpos, exc>>
    /\ UNCHANGED <<frame, dbLog, openConns, openCurs>>

\* faulty variant of LLMRespond: a response with a single tool call is taken
\* for the final answer
LLMRespondReturnsOnOneCall ==
    /\ pc = "llm"
    /\ Len(requests) < MaxRequests
    /\ requests' = Append(requests, Request(force_tool, messages))
    /\ iter' = iter + 1
    /\ \E m \in Responses(Len(requests) + 1, MaxFaults - faults, MaxCalls - issued) :
          /\ messages' = Append(messages, AssistantTurn(m))
          /\ faults' = faults + BadCalls(m)
          /\ issued' = issued + Len(m.tool_calls)
          /\ IF Len(m.tool_calls) > 1
             THEN /\ message' = m
                  /\ idx' = 1
                  /\ retval' = retval
                  /\ pc' = "dispatch"
             ELSE /\ message' = NoMessage
                  /\ idx' = 0
                  /\ retval' = m.content
                  /\ pc' = "returned"
    /\ force_tool' = FALSE
    /\ UNCHANGED <<runs, qpos, exc>>
    /\ UNCHANGED <<frame, dbLog, openConns, openCurs>>

\* faulty variant of LLMRespond: force_tool is not cleared after the request
LLMRespondKeepsForcing ==
    /\ pc = "llm"
    /\ Len(requests) < MaxRequests
    /\ requests' = Append(requests, Request(force_tool, messages))
    /\ iter' = iter + 1
    /\ \E m \in Responses(Len(requests) + 1, MaxFaults - faults, MaxCalls - issued) :
          /\ messages' = Append(messages, AssistantTurn(m))
          /\ faults' = faults + BadCalls(m)
          /\ issued' = issued + Len(m.tool_calls)
          /\ IF m.tool_calls # <<>>
             THEN /\ message' = m
                  /\ idx' = 1
                  /\ retval' = retval
                  /\ pc' = "dispatch"
             ELSE /\ message' = NoMessage
                  /\ idx' = 0
                  /\ retval' = m.content
                  /\ pc' = "returned"
    /\ force_tool' = force_tool
    /\ UNCHANGED <<runs, qpos, exc>>
    /\ UNCHANGED <<frame, dbLog, openConns, openCurs>>

LLMRespond ==
    /\ pc = "llm"
    /\ Len(requests) < MaxRequests
    /\ requests' = Append(requests, Request(force_tool, messages))
    /\ iter' = iter + 1
    /\ \E m \in Responses(Len(requests) + 1, MaxFaults - faults, MaxCalls - issued) :
          /\ messages' = Append(messages, AssistantTurn(m))
          /\ faults' = faults + BadCalls(m)
          /\ issued' = issued + Len(m.tool_calls)
          /\ IF m.tool_calls # <<>>
             THEN /\ message' = m
                  /\ idx' = 1
                  /\ retval' = retval
                  /\ pc' = "dispatch"
             ELSE /\ message' = NoMessage
                  /\ idx' = 0
                  /\ retval' = m.content
                  /\ pc' = "returned"
    /\ force_tool' = FALSE
    /\ UNCHANGED <<runs, qpos, exc>>
    /\ UNCHANGED <<frame, dbLog, openConns, openCurs>>

\* faulty variant of DispatchRaise: an ill-formed tool call is answered with an
\* error result and the loop goes on
DispatchRaiseAnswersError ==
    /\ pc = "dispatch"
    /\ DispatchError(message.tool_calls[idx]) # "none"
    /\ messages' = Append(messages,
                     ToolTurn(JsonDumps(StringDoc(JsonDumps(ErrorDoc(DispatchError(message.tool_calls[idx]))))),
                              message.tool_calls[idx].id))
    /\ IF idx < Len(message.tool_calls)
       THEN /\ idx' = idx + 1
            /\ message' = message
            /\ pc' = "dispatch"
       ELSE /\ idx' = 0
            /\ message' = NoMessage
            /\ pc' = "llm"
    /\ UNCHANGED <<force_tool, requests, runs, iter, qpos, retval, exc>>
    /\ UNCHANGED <<frame, dbLog, openConns, openCurs, faults>>
    /\ UNCHANGED issued

DispatchRaise ==
    /\ pc = "dispatch"
    /\ DispatchError(message.tool_calls[idx]) # "none"
    /\ exc' = DispatchError(message.tool_calls[idx])
    /\ pc' = "raised"
    /\ message' = NoMessage
    /\ idx' = 0
    /\ UNCHANGED <<messages, force_tool, requests, runs, iter, qpos, retval>>
    /\ UNCHANGED <<frame, dbLog, openConns, openCurs, faults>>
    /\ UNCHANGED issued

\* faulty variant of DispatchCall: the arguments of the last tool call of the
\* response are executed, whichever call the loop is at
DispatchCallTakesLast ==
    /\ pc = "dispatch"
    /\ DispatchError(message.tool_calls[idx]) = "none"
    /\ DispatchError(message.tool_calls[Len(message.tool_calls)]) = "none"
    /\ EnterExecute(Lookup(JsonLoads(message.tool_calls[Len(message.tool_calls)].arguments),
                           "sql_query"), "tool")
    /\ UNCHANGED driver
    /\ UNCHANGED <<openConns, openCurs, faults>>

DispatchCall ==
    /\ pc = "dispatch"
    /\ DispatchError(message.tool_calls[idx]) = "none"
    /\ EnterExecute(Lookup(JsonLoads(message.tool_calls[idx].arguments), "sql_query"), "tool")
    /\ UNCHANGED driver
    /\ UNCHANGED <<openConns, openCurs, faults>>

\* faulty variant of ToolResult: the turn is tagged with the position of the
\* call instead of its id
ToolResultTagsPosition ==
    /\ pc = "exec_return"
    /\ caller = "tool"
    /\ messages' = Append(messages,
                     ToolTurn(JsonDumps(StringDoc(ret)), idx))
    /\ IF idx < Len(message.tool_calls)
       THEN /\ idx' = idx + 1
            /\ message' = message
            /\ pc' = "dispatch"
       ELSE /\ idx' = 0
            /\ message' = NoMessage
            /\ pc' = "llm"
    /\ LeaveExecute
    /\ UNCHANGED <<force_tool, requests, runs, iter, qpos, retval, exc>>
    /\ UNCHANGED <<openConns, openCurs, faults>>
    /\ UNCHANGED issued

\* faulty variant of ToolResult: an error result is raised to the caller
ToolResultRaisesErrors ==
    /\ pc = "exec_return"
    /\ caller = "tool"
    /\ IF ret.doc.t = "error"
       THEN /\ pc' = "raised"
            /\ exc' = "ExecutionError"
            /\ idx' = 0
            /\ message' = NoMessage
            /\ UNCHANGED messages
       ELSE /\ messages' = Append(messages,
                            ToolTurn(JsonDumps(StringDoc(ret)), message.tool_calls[idx].id))
            /\ exc' = exc
            /\ IF idx < Len(message.tool_calls)
               THEN /\ idx' = idx + 1
                    /\ message' = message
                    /\ pc' = "dispatch"
               ELSE /\ idx' = 0
                    /\ message' = NoMessage
                    /\ pc' = "llm"
    /\ LeaveExecute
    /\ UNCHANGED <<force_tool, requests, runs, iter, qpos, retval>>
    /\ UNCHANGED <<openConns, openCurs, faults>>
    /\ UNCHANGED issued

ToolResult ==
    /\ pc = "exec_return"
    /\ caller = "tool"
    /\ messages' = Append(messages,
                     ToolTurn(JsonDumps(StringDoc(ret)), message.tool_calls[idx].id))
    /\ IF idx < Len(message.tool_calls)
       THEN /\ idx' = idx + 1
            /\ message' = message
            /\ pc' = "dispatch"
       ELSE /\ idx' = 0
            /\ message' = NoMessage
            /\ pc' = "llm"
    /\ LeaveExecute
    /\ UNCHANGED <<force_tool, requests, runs, iter, qpos, retval, exc>>
    /\ UNCHANGED <<openConns, openCurs, faults>>
    /\ UNCHANGED issued

----------------------------------------------------------------------------

Next ==
    \/ InitializeAI
    \/ CheckForbidden
    \/ Connect
    \/ Cursor
    \/ Execute
    \/ Fetch
    \/ Commit
    \/ CloseCursor
    \/ CloseConnection
    \/ SeedSchema
    \/ RunQuery
    \/ LLMRaise
    \/ LLMRespond
    \/ DispatchRaise
    \/ DispatchCall
    \/ ToolResult

Spec == Init /\ [][Next]_vars

----------------------------------------------------------------------------
(* The gate and executor on its own: run_query is at the dispatch of one   *)
(* tool call whose sql_query the LLM chose freely, either a statement of   *)
(* the database above, a non-text value, or a text with a denylisted       *)
(* keyword in some letter case, alone or inside other text.                *)

RECURSIVE Casings(_)
Casings(w) ==
    IF w = <<>> THEN {<<>>}
    ELSE {<<c>> \o r : c \in {Head(w), LowerChar(Head(w))}, r \in Casings(Tail(w))}

KeywordTexts ==
    UNION {{c, <<"a", " ">> \o c \o <<";">>} :
             c \in UNION {Casings(forbidden_commands[k]) : k \in 1..Len(forbidden_commands)}}

GateValues ==
    {StrVal(t) : t \in KeywordTexts \cup
                       {SelectText, EmptyText, JoinText, SeenText, VacuumText, DropText}}
    \cup {NumVal(1)}

GateMessage(v) ==
    [content |-> NoContent,
     tool_calls |-> << [id |-> FreshId(1, 1), name |-> "execute_sql_query",
                        arguments |-> ObjectArgs(<< <<"sql_query", v>> >>)] >>]

InitGate ==
    \E v \in GateValues, query \in Questions :
        /\ messages = << system_prompt,
                         Turn("user", JsonDumps(RowsDoc(<< << <<"table_schema", "public">>,
                                                            <<"table_name", "users">> >> >>))),
                         Turn("user", Text(query)),
                         AssistantTurn(GateMessage(v)) >>
        /\ pc = "dispatch"
        /\ force_tool = FALSE
        /\ message = GateMessage(v)
        /\ idx = 1
        /\ sql_query = StrVal(<<>>)
        /\ caller = "none"
        /\ has_conn = FALSE
        /\ has_cur = FALSE
        /\ columns = <<>>
        /\ rows = <<>>
        /\ results = Unset
        /\ ret = Unset
        /\ dbLog = <<>>
        /\ openConns = 0
        /\ openCurs = 0
        /\ requests = <<[tool_choice |-> ToolChoice(TRUE), sent |-> 3]>>
        /\ runs = 1
        /\ iter = 1
        /\ qpos = 3
        /\ retval = NoContent
        /\ exc = "none"
        /\ faults = 0
        /\ issued = 1

NextGate ==
    \/ DispatchCall
    \/ CheckForbidden
    \/ Connect
    \/ Cursor
    \/ Execute
    \/ Fetch
    \/ Commit
    \/ CloseCursor
    \/ CloseConnection
    \/ ToolResult

SpecGate == InitGate /\ [][NextGate]_vars

----------------------------------------------------------------------------
(* The program under fair scheduling: the interpreter runs every statement *)
(* control reaches, and a call to the database or to the LLM service comes *)
(* back, with a value or an exception.  The caller is free never to invoke *)
(* run_query again.                                                        *)

SpecLive ==
    Init /\ [][Next]_vars /\ WF_vars(Next /\ pc \notin {"idle", "returned", "raised"})

TypeOK ==
    /\ pc \in {"construct", "check", "connect", "cursor", "execute", "fetch", "commit",
               "close_cur", "close_conn", "exec_return", "idle", "llm", "dispatch",
               "returned", "raised"}
    /\ openConns \in 0..1
    /\ openCurs \in 0..1

----------------------------------------------------------------------------
(* Vocabulary of the properties *)

ExecPcs == {"check", "connect", "cursor", "execute", "fetch", "commit",
            "close_cur", "close_conn", "exec_return"}

InExecute == pc \in ExecPcs

LowerKeywords ==
    [c \in 1..Len(forbidden_commands) |->
        [i \in 1..Len(forbidden_commands[c]) |-> LowerChar(forbidden_commands[c][i])]]

\* text holds one of the eleven keywords, letter case disregarded
HasKeyword(text) ==
    LET low == [i \in 1..Len(text) |-> LowerChar(text[i])]
    IN  \E c \in 1..Len(LowerKeywords) :
            \E k \in 0..(Len(low) - Len(LowerKeywords[c])) :
                \A i \in 1..Len(LowerKeywords[c]) : low[k + i] = LowerKeywords[c][i]

Logged(o, ok) == \E i \in 1..Len(dbLog) : dbLog[i] = [op |-> o, ok |-> ok]

Position(o) == CHOOSE i \in 1..Len(dbLog) : dbLog[i].op = o

Attempts(o) == Cardinality({i \in 1..Len(dbLog) : dbLog[i].op = o})

IsToolTurn(i) == messages[i].role = "tool"

IsErrorTurn(i) == IsToolTurn(i) /\ messages[i].content.doc.string.doc.t = "error"

----------------------------------------------------------------------------
\* C1: a query text holding a denylisted keyword in any letter case never
\* reaches the database: no connect, cursor, execute, fetch or commit step is
\* taken, no connection or cursor exists, and the call returns the fixed
\* error {"error": "You are not allowed to execute this command."}.
C1_DeniedNeverTouchesDatabase ==
    (InExecute /\ IsStr(sql_query) /\ HasKeyword(sql_query.str)) =>
        /\ pc \in {"check", "close_cur", "close_conn", "exec_return"}
        /\ dbLog = <<>>
        /\ openConns = 0 /\ openCurs = 0
        /\ ~has_conn /\ ~has_cur
        /\ pc # "check" =>
             ret = [kind |-> "json",
                    doc |-> [t |-> "error",
                             error |-> "You are not allowed to execute this command."]]

C1_Witness ==
    /\ pc = "exec_return"
    /\ sql_query = StrVal(DropText)
    /\ ret.doc.t = "error"

\* C4: whatever step of an execution raises, the call returns with every
\* cursor and connection it acquired released, the cursor before the
\* connection, and skips a release only for a resource it never acquired;
\* no connection or cursor is open outside a call, so every call starts clean.
C4_ResourcesReleased ==
    /\ (~InExecute \/ pc \in {"check", "exec_return"}) => (openConns = 0 /\ openCurs = 0)
    /\ InExecute => (openConns = (IF has_conn /\ ~Logged("conn.close", TRUE) THEN 1 ELSE 0)
                     /\ openCurs = (IF has_cur /\ ~Logged("cur.close", TRUE) THEN 1 ELSE 0))
    /\ pc = "exec_return" =>
          /\ Logged("connect", TRUE) <=> Logged("conn.close", TRUE)
          /\ Logged("cursor", TRUE) <=> Logged("cur.close", TRUE)
          /\ Attempts("conn.close") <= 1 /\ Attempts("cur.close") <= 1
          /\ Logged("cur.close", TRUE) => Position("cur.close") < Position("conn.close")
    /\ Logged("conn.close", TRUE) => (has_cur => Logged("cur.close", TRUE))

\* a call succeeds right after a call of the same run that failed in the database
C4_Witness ==
    /\ pc = "exec_return"
    /\ caller = "tool"
    /\ ret.doc.t = "rows"
    /\ IsErrorTurn(Len(messages))
    /\ messages[Len(messages)].content.doc.string.doc.error \in
           {"connect", "cursor", "execute", "fetchall", "commit"}

\* the statement of the current call passed the denylist, executed without
\* raising and was committed
Committed ==
    /\ pc = "exec_return"
    /\ IsStr(sql_query) /\ ~HasKeyword(sql_query.str)
    /\ Logged("execute", TRUE)
    /\ Logged("commit", TRUE)

\* C6 as stated: a non-denylisted statement yielding N rows and C described
\* columns, repeated column names included, returns N mappings in row order,
\* each with exactly C keys, the i-th key the i-th column name mapped to the
\* i-th value of the row.  (Stated for committed executions whose values
\* json.dumps can serialise.)
C6_AsStated ==
    (Committed /\ Logged("fetchall", TRUE)
       /\ \A r \in 1..Len(rows) : \A i \in 1..Len(rows[r]) : rows[r][i] \notin NonSerializable) =>
        /\ ret.doc.t = "rows"
        /\ Len(ret.doc.rows) = Len(rows)
        /\ \A r \in 1..Len(rows) :
              /\ Len(ret.doc.rows[r]) = Len(columns)
              /\ \A i \in 1..Len(columns) : ret.doc.rows[r][i] = <<columns[i], rows[r][i]>>

\* C9 as stated: a non-denylisted statement whose execution produces no
\* result-set description returns exactly {"message": "Query executed successfully."}.
C9_AsStated ==
    (pc = "exec_return" /\ IsStr(sql_query) /\ ~HasKeyword(sql_query.str)
       /\ Logged("execute", TRUE) /\ ~Logged("fetchall", TRUE) /\ ~Logged("fetchall", FALSE)) =>
        ret = [kind |-> "json",
               doc |-> [t |-> "message", message |-> "Query executed successfully."]]

\* C9 amended: a non-denylisted statement whose execution produces no
\* result-set description and whose commit does not raise returns exactly
\* {"message": "Query executed successfully."}; when the commit raises the
\* result is {"error": <exception text>}.
C9_NoDescriptionGivesMessage ==
    (pc = "exec_return" /\ IsStr(sql_query) /\ ~HasKeyword(sql_query.str)
       /\ Logged("execute", TRUE) /\ ~Logged("fetchall", TRUE) /\ ~Logged("fetchall", FALSE)) =>
        /\ Logged("commit", TRUE) =>
              ret = [kind |-> "json",
                     doc |-> [t |-> "message", message |-> "Query executed successfully."]]
        /\ Logged("commit", FALSE) => ret = [kind |-> "json", doc |-> [t |-> "error", error |-> "commit"]]
        /\ Logged("commit", TRUE) \/ Logged("commit", FALSE)

C9_Witness ==
    /\ pc = "exec_return"
    /\ sql_query = StrVal(VacuumText)
    /\ Logged("commit", TRUE)
    /\ ret.doc.t = "message"

----------------------------------------------------------------------------
(* The current run_query invocation in the transcript: its question is     *)
(* messages[qpos], its turns follow                                        *)

RunTurns == (qpos + 1)..Len(messages)

IsAssistant(i) == messages[i].role = "assistant"

Forced == [type |-> "function", function |-> "execute_sql_query"]

Auto == [type |-> "auto"]

\* a chat-completion request was sent after turn i was appended
RequestAfter(i) == \E k \in 1..Len(requests) : requests[k].sent >= i

Ended == pc \in {"returned", "raised"}

\* the assistant turn whose tool calls turn i answers
Origin(i) == CHOOSE a \in 1..(i - 1) :
                 IsAssistant(a) /\ \A j \in (a + 1)..(i - 1) : IsToolTurn(j)

\* C2 as stated: a run_query call returns a final answer only after at least
\* one tool call of that call was executed and its tool-role turn appended,
\* whatever the LLM responded.
C2_AsStated ==
    pc = "returned" => \E i \in RunTurns : IsToolTurn(i)

\* C2 amended: the first LLM request of every run_query call forces the
\* execute_sql_query tool; when the response to it carries at least one
\* tool-call request, the first of them is executed and answered by a
\* tool-role turn before run_query returns any final answer; when it carries
\* none, run_query returns its content at once, without any tool call.
C2_ForcedFirstRequest ==
    /\ \A k \in 1..Len(requests) :
          messages[requests[k].sent].role = "user" => requests[k].tool_choice = Forced
    /\ (pc = "returned" /\ messages[qpos + 1].tool_calls # <<>>) =>
          /\ IsToolTurn(qpos + 2)
          /\ messages[qpos + 2].tool_call_id = messages[qpos + 1].tool_calls[1].id
    /\ (pc = "returned" /\ messages[qpos + 1].tool_calls = <<>>) =>
          /\ Len(messages) = qpos + 1
          /\ retval = messages[qpos + 1].content

C2_Witness ==
    /\ pc = "returned"
    /\ Len(messages) > qpos + 2
    /\ IsToolTurn(qpos + 2)

Denied == IsStr(sql_query) /\ HasKeyword(sql_query.str)

FailedOp == \E i \in 1..Len(dbLog) : ~dbLog[i].ok

NotAllowedText ==
    [kind |-> "json",
     doc |-> [t |-> "error", error |-> "You are not allowed to execute this command."]]

\* what _execute_sql_query returns for a refused or failed execution
ErrorReturned ==
    (pc = "exec_return" /\ (Denied \/ FailedOp)) =>
        /\ ret.kind = "json" /\ ret.doc.t = "error"
        /\ Denied => ret = NotAllowedText
        /\ FailedOp => ret.doc.error = dbLog[CHOOSE i \in 1..Len(dbLog) : ~dbLog[i].ok].op

\* the assistant turn whose tool calls the end of the transcript answers
Pending == Origin(Len(messages) + 1)

\* the error result that ends the transcript answers the request it came from
LastErrorTagged ==
    (Len(messages) > qpos /\ IsErrorTurn(Len(messages))) =>
        /\ Len(messages) - Pending <= Len(messages[Pending].tool_calls)
        /\ messages[Len(messages)].tool_call_id =
               messages[Pending].tool_calls[Len(messages) - Pending].id

\* run_query ended because the next tool call of the pending response raised
RaisedAtDispatch ==
    /\ pc = "raised"
    /\ Len(messages) - Pending < Len(messages[Pending].tool_calls)
    /\ exc = DispatchError(messages[Pending].tool_calls[Len(messages) - Pending + 1])
    /\ exc \in {"JSONDecodeError", "KeyError", "TypeError"}

C8_LLMFailurePropagates ==
    [][ /\ (pc = "llm" /\ pc' = "raised") =>
              /\ exc' = "TransportError"
              /\ messages' = messages
              /\ Len(messages) >= qpos /\ messages[qpos].role = "user"
              /\ Len(requests') = Len(requests) + 1
        /\ (pc = "raised" /\ exc = "TransportError") =>
              /\ pc' = "llm"
              /\ runs' = runs + 1
              /\ requests' = requests
              /\ dbLog' = dbLog
              /\ Len(messages') = Len(messages) + 1
              /\ SubSeq(messages', 1, Len(messages)) = messages
              /\ messages'[Len(messages')].role = "user"
      ]_vars

\* a second invocation runs on a transcript whose previous question got no answer
C8_Witness ==
    /\ pc = "llm"
    /\ runs = 2
    /\ qpos > 3
    /\ messages[qpos - 1].role = "user"

\* C10: every tool-role turn carries the id of a tool-call request of an
\* assistant turn that precedes it in the transcript.
C10_ToolTurnsReferenceRequests ==
    \A i \in 1..Len(messages) : IsToolTurn(i) =>
        \E j \in 1..(i - 1) :
            /\ IsAssistant(j)
            /\ \E k \in 1..Len(messages[j].tool_calls) :
                  messages[j].tool_calls[k].id = messages[i].tool_call_id

C10_Witness ==
    \E i \in 1..Len(messages) : IsToolTurn(i) /\ messages[i].tool_call_id = FreshId(1, 2)

----------------------------------------------------------------------------
\* C11: the transcript is append-only: every step leaves the turns already
\* there in place, unchanged and in order, and only adds turns after them;
\* every run_query invocation, returning or raising, adds at least one turn,
\* its question, to the transcript it found.
C11_TranscriptAppendOnly ==
    [][ /\ Len(messages') >= Len(messages)
        /\ SubSeq(messages', 1, Len(messages)) = messages
        /\ (pc \in {"idle", "returned", "raised"} /\ pc' = "llm") =>
              /\ Len(messages') = Len(messages) + 1
              /\ qpos' = Len(messages')
              /\ messages'[qpos'].role = "user"
        /\ (pc \notin {"construct", "idle"} /\ caller # "init") =>
              (qpos' = qpos \/ pc' = "llm") /\ Len(messages) >= qpos
      ]_vars

\* a second invocation has ended on the transcript the first one left
C11_Witness ==
    /\ runs = 2
    /\ Ended
    /\ qpos = 5
    /\ IsAssistant(4)
    /\ Len(messages) > qpos

\* C12: within each run_query call the first LLM request forces the
\* execute_sql_query tool and every later request of that call is sent with
\* tool choice "auto"; every run_query call starts with the forcing armed
\* again, so the first request of a later call is forced as well.
C12_ForcedFirstThenAuto ==
    [][ /\ Len(requests') # Len(requests) =>
              /\ pc = "llm"
              /\ requests' = Append(requests,
                                [tool_choice |-> (IF iter = 0 THEN Forced ELSE Auto),
                                 sent |-> Len(messages)])
              /\ iter' = iter + 1
        /\ (pc \in {"idle", "returned", "raised"} /\ pc' = "llm") =>
              (iter' = 0 /\ force_tool' = TRUE)
        /\ pc = "llm" => (force_tool <=> iter = 0)
        /\ (pc \notin {"idle", "returned", "raised"} /\ iter' # iter) =>
              Len(requests') # Len(requests)
      ]_vars

\* the first request of a second invocation was forced again
C12_Witness ==
    /\ runs = 2
    /\ Len(requests) = 2
    /\ requests[1].tool_choice = Forced
    /\ requests[2].tool_choice = Forced
    /\ requests[2].sent = qpos

\* the tool-role turns that directly follow turn i
Answers(i) ==
    CHOOSE n \in 0..(Len(messages) - i) :
        /\ \A j \in 1..n : IsToolTurn(i + j)
        /\ (i + n < Len(messages)) => ~IsToolTurn(i + n + 1)

\* run_query is working on the tool calls of the response at turn i
Processing(i) ==
    /\ pc \in ExecPcs \cup {"dispatch"}
    /\ caller # "init"
    /\ i = Pending

Rank(o) ==
    CASE o = "connect" -> 1
      [] o = "cursor" -> 2
      [] o = "execute" -> 3
      [] o = "fetchall" -> 4
      [] o = "commit" -> 5
      [] o = "cur.close" -> 6
      [] o = "conn.close" -> 7

\* the call is past its try block
Releasing == pc \in {"close_cur", "close_conn", "exec_return"}

\* C14: the database operations of every non-denylisted execution come in
\* the order connect, cursor, execute, fetchall (only when a result set is
\* described), commit, cursor close, connection close, each at most once
\* and none after one that raised except the releases; a statement that
\* executed, and whose rows were fetched when it described any, gets exactly
\* one commit, issued before any release, read-only SELECTs included; no
\* commit is issued when connect, cursor, execute or fetchall raised.
C14_CommitAfterExecution ==
    (InExecute /\ IsStr(sql_query) /\ ~HasKeyword(sql_query.str)) =>
        /\ \A i, j \in 1..Len(dbLog) : i < j => Rank(dbLog[i].op) < Rank(dbLog[j].op)
        /\ \A i, j \in 1..Len(dbLog) : (i < j /\ ~dbLog[i].ok) => Rank(dbLog[j].op) >= 6
        /\ Attempts("cursor") = 1 => Logged("connect", TRUE)
        /\ Attempts("execute") = 1 => Logged("cursor", TRUE)
        /\ Attempts("fetchall") = 1 => (Logged("execute", TRUE) /\ columns # <<>>)
        /\ (Logged("execute", TRUE) /\ pc \notin {"fetch"}) =>
              (Attempts("fetchall") = 1 <=> columns # <<>>)
        /\ (Releasing \/ pc = "commit") =>
              (Logged("execute", TRUE) /\ ~Logged("fetchall", FALSE)
                 <=> (pc = "commit" \/ Attempts("commit") = 1))
        /\ pc = "commit" => Attempts("commit") = 0
        /\ Releasing => Attempts("connect") = 1
        /\ (Logged("connect", FALSE) \/ Logged("cursor", FALSE) \/ Logged("execute", FALSE)
              \/ Logged("fetchall", FALSE)) => Attempts("commit") = 0
        /\ pc = "exec_return" =>
              /\ Logged("connect", TRUE) => dbLog[Len(dbLog)] = [op |-> "conn.close", ok |-> TRUE]
              /\ Logged("cursor", TRUE) => Logged("cur.close", TRUE)

\* a read-only SELECT went through all seven operations, commit included
C14_Witness ==
    /\ pc = "exec_return"
    /\ sql_query = StrVal(SelectText)
    /\ Len(dbLog) = 7
    /\ \A i \in 1..7 : dbLog[i].ok /\ Rank(dbLog[i].op) = i
    /\ ret.doc.t = "rows"

\* the schema-discovery statement, as written in _initialize_ai
SchemaStatement ==
    [str |-> <<"S", "E", "L", "E", "C", "T", " ", "t", "a", "b", "l", "e", "_", "s", "c", "h", "e", "m", "a", ",", " ", "t", "a", "b", "l", "e", "_", "n", "a", "m", "e", " ", "F", "R", "O", "M", " ", "i", "n", "f", "o", "r", "m", "a", "t", "i", "o", "n", "_", "s", "c", "h", "e", "m", "a", ".", "t", "a", "b", "l", "e", "s">>]

\* C15: construction runs the schema-discovery statement exactly once, sends
\* no LLM request, and completes with a transcript of exactly two turns, the
\* system prompt and a user-role turn whose content is what that execution
\* returned, be it the rows or, when the execution failed, its error result.
C15_ConstructionSeedsTranscript ==
    [][ /\ pc # "construct" => pc' # "construct"
        /\ pc = "construct" =>
              /\ messages = <<>> /\ requests = <<>> /\ dbLog = <<>>
              /\ caller' = "init" /\ pc' = "check" /\ sql_query' = SchemaStatement
        /\ (caller # "init" /\ pc # "construct") => caller' # "init"
        /\ caller = "init" =>
              /\ sql_query = SchemaStatement
              /\ Len(messages) = 1 /\ messages[1].role = "system"
              /\ requests = <<>> /\ runs = 0
              /\ pc \in ExecPcs
              /\ pc' \in ExecPcs \cup {"idle"}
              /\ pc' = "idle" <=> pc = "exec_return"
              /\ (pc' \in ExecPcs /\ pc' # pc) => Len(dbLog') >= Len(dbLog)
        /\ (pc = "exec_return" /\ caller = "init") =>
              /\ ret.kind = "json"
              /\ ret.doc.t = (IF FailedOp THEN "error" ELSE "rows")
              /\ Attempts("connect") = 1 /\ Attempts("execute") <= 1
              /\ messages' = << messages[1],
                                [role |-> "user", content |-> ret, tool_calls |-> <<>>,
                                 tool_call_id |-> 0] >>
              /\ requests' = <<>>
        /\ pc = "idle" =>
              /\ Len(messages) = 2
              /\ messages[1].role = "system" /\ messages[2].role = "user"
              /\ messages[2].content.kind = "json"
              /\ requests = <<>> /\ runs = 0
      ]_vars

\* construction completed although the schema query failed
C15_Witness ==
    /\ pc = "idle"
    /\ Len(messages) = 2
    /\ messages[2].content.doc.t = "error"

\* a run_query invocation is under way
InRun == pc \notin {"construct", "idle", "returned", "raised"} /\ caller # "init"

\* the requests the model allows cover every response the LLM can still
\* give with tool-call requests, and the final answer after them
Sufficient == Len(requests) + (MaxCalls - issued) < MaxRequests

\* nothing can raise any more: the environment has produced all its abnormal
\* events and no tool call still to be dispatched is ill-formed
NoRaiseAhead ==
    /\ faults = MaxFaults
    /\ pc # "llm" =>
          \A j \in idx..Len(message.tool_calls) : DispatchError(message.tool_calls[j]) = "none"

AnswersTo(id, i, n) == {j \in (i + 1)..n : IsToolTurn(j) /\ messages[j].tool_call_id = id}

\* C17 as stated: whenever an LLM request is sent, whatever run_query
\* invocations came before, raising ones included, every tool-call request
\* of every assistant turn of the transcript sent has exactly one tool-role
\* turn answering it later in that transcript.
C17_AsStated ==
    \A r \in 1..Len(requests) :
        \A i \in 1..requests[r].sent :
            IsAssistant(i) =>
                \A k \in 1..Len(messages[i].tool_calls) :
                    Cardinality(AnswersTo(messages[i].tool_calls[k].id, i, requests[r].sent)) = 1

\* the tool-call request names another function than execute_sql_query, or
\* its argument text is not the text of a mapping with exactly the key sql_query
IllFormed(tc) ==
    \/ tc.name # "execute_sql_query"
    \/ tc.arguments.form # "object"
    \/ {tc.arguments.members[i][1] : i \in 1..Len(tc.arguments.members)} # {"sql_query"}

\* C18: an ill-formed tool-call request makes run_query end with an
\* exception raised to the caller: nothing is executed for it, no tool-role
\* turn is appended for it, the tool calls after it in the same response are
\* neither executed nor answered, and the assistant turn that carried it
\* stays in the transcript, after the answers to the tool calls before it.
\* A well-formed request is executed.
C18_IllFormedCallRaises ==
    [][ /\ (pc = "dispatch" /\ IllFormed(message.tool_calls[idx])) =>
              /\ pc' = "raised"
              /\ exc' \in {"JSONDecodeError", "KeyError", "TypeError"}
              /\ messages' = messages
              /\ dbLog' = dbLog /\ openConns' = openConns
              /\ IsAssistant(Len(messages) - (idx - 1))
              /\ messages[Len(messages) - (idx - 1)].tool_calls = message.tool_calls
              /\ \A j \in 1..(idx - 1) : IsToolTurn(Len(messages) - (idx - 1) + j)
        /\ (pc = "dispatch" /\ ~IllFormed(message.tool_calls[idx])) =>
              (pc' = "check" /\ caller' = "tool" /\ exc' = "none")
        /\ (pc = "raised" /\ exc \in {"JSONDecodeError", "KeyError", "TypeError"}) =>
              /\ IsAssistant(Pending)
              /\ Answers(Pending) < Len(messages[Pending].tool_calls)
              /\ Pending + Answers(Pending) = Len(messages)
              /\ IllFormed(messages[Pending].tool_calls[Answers(Pending) + 1])
              /\ \A k \in (Answers(Pending) + 1)..Len(messages[Pending].tool_calls) :
                    AnswersTo(messages[Pending].tool_calls[k].id, Pending, Len(messages)) = {}
              /\ dbLog = <<>>
              /\ dbLog' = dbLog /\ requests' = requests
              /\ pc' \in {"raised", "llm"}
              /\ pc' = "llm" => (runs' = runs + 1
                                  /\ SubSeq(messages', 1, Len(messages)) = messages)
      ]_vars

\* the second tool call of a response was ill-formed: the first was executed
\* and answered, then run_query raised
C18_Witness ==
    /\ pc = "raised"
    /\ exc = "TypeError"
    /\ Len(messages[Pending].tool_calls) = 2
    /\ Answers(Pending) = 1
    /\ messages[Pending].tool_calls[2].arguments.form = "array"

====
